---- MODULE Spec2Model ----
(***************************************************************************)
(* The persistence and query layer of app.py: four SQLite tables           *)
(* (workouts, goals, meals, calorie_goals) and the thirteen request        *)
(* handlers that read and write them.  Handlers are modelled statement by  *)
(* statement from the source; SQLite's behaviour (AUTOINCREMENT, NOT NULL, *)
(* UNIQUE with OR REPLACE, column affinity, SUM over no rows, file         *)
(* locking) is modelled where a handler relies on it.                      *)
(***************************************************************************)
EXTENDS Integers, Sequences, FiniteSets, TLC

VARIABLES
    workouts,         \* committed rows of table workouts
    goals,            \* committed rows of table goals
    meals,            \* committed rows of table meals
    calorie_goals,    \* committed rows of table calorie_goals
    sqlite_sequence,  \* AUTOINCREMENT bookkeeping: table name -> largest rowid ever used
    issued,           \* history: table name -> set of every id a create has returned
    clock,            \* CURRENT_TIMESTAMP, whole seconds
    unclosed,         \* some connection opened by a handler that has returned is still open
    req,              \* the request most recently handled (sequential specifications)
    resp,             \* the response it produced
    proc,             \* concurrent specification: each request thread's position and locals
    writer            \* concurrent specification: holder of the database write lock, 0 if none

vars == <<workouts, goals, meals, calorie_goals, sqlite_sequence, issued,
          clock, unclosed, req, resp, proc, writer>>

tables == <<workouts, goals, meals, calorie_goals, sqlite_sequence>>

(***************************************************************************)
(* Bounds of the model.                                                    *)
(***************************************************************************)
MaxId    == 3     \* rowids handed out per table
MaxClock == 2     \* seconds the clock can advance
MaxInt   == 3     \* largest integer literal recognised in a text value
MaxRows  == 2     \* rows inserted in all tables together, where all stores run together
MaxThreads == 2   \* request threads of the server that run at the same time

(***************************************************************************)
(* JSON / SQLite values.  One record shape for every value, tagged by t.   *)
(***************************************************************************)
Absent   == [t |-> "absent", n |-> 0, s |-> ""]   \* key not in the payload
Null     == [t |-> "null",   n |-> 0, s |-> ""]   \* JSON null / Python None / SQL NULL
Array    == [t |-> "array",  n |-> 0, s |-> ""]   \* JSON array or object: no SQLite binding
I(k)     == [t |-> "int",    n |-> k, s |-> ""]
T(str)   == [t |-> "text",   n |-> 0, s |-> str]

IsInt(v)  == v.t = "int"
IsText(v) == v.t = "text"

Digit == <<"0", "1", "2", "3", "4", "5", "6", "7", "8", "9">>

RECURSIVE IntToText(_)
IntToText(k) ==
    IF k < 0 THEN "-" \o IntToText(-k)
    ELSE IF k < 10 THEN Digit[k + 1]
    ELSE IntToText(k \div 10) \o Digit[(k % 10) + 1]

\* The text is an integer literal (recognised up to MaxInt in absolute value).
LooksLikeInt(str) == \E k \in (-MaxInt)..MaxInt : IntToText(k) = str
TextToInt(str)    == CHOOSE k \in (-MaxInt)..MaxInt : IntToText(k) = str

\* Column affinity applied when a value is stored (SQLite "Type Affinity").
\* INTEGER column: text that is an integer literal is converted, other text is kept.
IntegerAffinity(v) ==
    IF IsText(v) /\ LooksLikeInt(v.s) THEN I(TextToInt(v.s)) ELSE v
\* TEXT column: a number is converted to its text form.
TextAffinity(v) ==
    IF IsInt(v) THEN T(IntToText(v.n)) ELSE v

\* sqlite3 binds None, int and str (float, bytes are not drawn here); anything else raises.
Bindable(v) == v.t \in {"null", "int", "text"}

\* Python truthiness of a value used in `x or 0` / `if x:`.
Truthy(v) ==
    CASE v.t = "int"  -> v.n # 0
      [] v.t = "text" -> v.s # ""
      [] OTHER        -> FALSE

\* dict.get(key, default)
Get(v, default) == IF v = Absent THEN default ELSE v

(***************************************************************************)
(* Ordering helpers for ORDER BY.                                          *)
(***************************************************************************)
\* BINARY collation of the texts that can appear in a date column of the model.
Collation == <<"", "1", "2", "2024-01-01", "2024-01-02", "3", "4", "a">>
Rank(str) == CHOOSE i \in 1..Len(Collation) : Collation[i] = str
\* Storage-class order: NULL < numbers < text; within a class by value.
ValueLess(a, b) ==
    CASE a.t = "null" -> b.t # "null"
      [] a.t = "int"  -> (b.t = "int" /\ a.n < b.n) \/ b.t = "text"
      [] a.t = "text" -> b.t = "text" /\ Rank(a.s) < Rank(b.s)
      [] OTHER        -> FALSE

\* Every sequence that lists each row of rows once and respects before, the set of
\* pairs <<a, b>> the ORDER BY puts a ahead of b: the result of SELECT ... ORDER BY,
\* where rows that tie come in any order.
Ordered(rows, before) ==
    LET n == Cardinality(rows)
    IN  {q \in [1..n -> rows] :
            /\ \A i, j \in 1..n : i # j => q[i] # q[j]
            /\ \A i, j \in 1..n : i < j => <<q[j], q[i]>> \notin before}

\* LIMIT k
Limit(q, k) == IF Len(q) <= k THEN q ELSE SubSeq(q, 1, k)

Max(a, b) == IF a >= b THEN a ELSE b

\* max(id) of a table, 0 when empty
MaxRowId(rows) ==
    IF rows = {} THEN 0 ELSE CHOOSE m \in {r.id : r \in rows} : \A r \in rows : r.id <= m

\* Faulty variant: a plain INTEGER PRIMARY KEY, which reuses the rowid of a deleted last row.
NextRowId_NoAutoincrement(name, rows) == MaxRowId(rows) + 1

\* INTEGER PRIMARY KEY AUTOINCREMENT: one more than the largest rowid ever used.
NextRowId(name, rows) == Max(sqlite_sequence[name], MaxRowId(rows)) + 1

(***************************************************************************)
(* Connections.  get_db() opens one per handler.  The `with` block of a    *)
(* sqlite3.Connection commits or rolls back on exit and does not close;    *)
(* no handler calls close().  The connection is closed only when the       *)
(* interpreter finalises the object: when the handler returns normally its *)
(* frame is freed and the connection with it; when an exception leaves the *)
(* handler, the traceback holds the frame and the connection stays open.   *)
(***************************************************************************)
Leave(raised) == unclosed' = (unclosed \/ raised)

\* The traceback is dropped and the interpreter finalises the connections it held.
Finalize ==
    /\ unclosed
    /\ unclosed' = FALSE
    /\ UNCHANGED <<tables, issued, clock, req, resp, proc, writer>>

NoBody == <<>>
Response(op, status, id, body) == [op |-> op, status |-> status, id |-> id, body |-> body]

(***************************************************************************)
(* Workouts                                                                *)
(***************************************************************************)
\* SELECT * FROM workouts ORDER BY date DESC, created_at DESC
WorkoutBefore(a, b) ==
    \/ ValueLess(b.date, a.date)
    \/ (a.date = b.date /\ a.created_at > b.created_at)

WorkoutBeforePairs(rows) == {pr \in rows \X rows : WorkoutBefore(pr[1], pr[2])}

get_workouts ==
    /\ \E body \in Ordered(workouts, WorkoutBeforePairs(workouts)) :
          resp' = Response("get_workouts", 200, 0, body)
    /\ req' = [op |-> "get_workouts"]
    /\ Leave(FALSE)
    /\ UNCHANGED <<tables, issued, clock, proc, writer>>

\* data['date'], data['type'], ...: KeyError on a missing key, TypeError when the
\* payload is not a dict.
WorkoutKeyError(data) ==
    \/ data.kind # "dict"
    \/ Absent \in {data.date, data.type, data.duration, data.calories}

WorkoutParams(data) ==
    [date |-> data.date, type |-> data.type, duration |-> data.duration,
     calories |-> data.calories, notes |-> Get(data.notes, T(""))]

\* The INSERT raises: a parameter sqlite3 cannot bind, or NULL in a NOT NULL column.
WorkoutInsertFails(p) ==
    \/ \E f \in DOMAIN p : ~Bindable(p[f])
    \/ Null \in {p.date, p.type, p.duration, p.calories}

WorkoutRow(id, p, now) ==
    [id |-> id, date |-> TextAffinity(p.date), type |-> TextAffinity(p.type),
     duration |-> IntegerAffinity(p.duration), calories |-> IntegerAffinity(p.calories),
     notes |-> TextAffinity(p.notes), created_at |-> now]

add_workout(data, now) ==
    /\ req' = [op |-> "add_workout", data |-> data]
    /\ clock' = now
    /\ UNCHANGED <<goals, meals, calorie_goals, proc, writer>>
    /\ IF WorkoutKeyError(data)
       THEN /\ resp' = Response("add_workout", 400, 0, NoBody)
            /\ Leave(FALSE)
            /\ UNCHANGED <<workouts, sqlite_sequence, issued>>
       ELSE LET p  == WorkoutParams(data)
                id == NextRowId("workouts", workouts)
            IN  IF WorkoutInsertFails(p)
                THEN /\ resp' = Response("add_workout", 500, 0, NoBody)
                     /\ Leave(TRUE)
                     /\ UNCHANGED <<workouts, sqlite_sequence, issued>>
                ELSE /\ id <= MaxId
                     /\ workouts' = workouts \cup {WorkoutRow(id, p, now)}
                     /\ sqlite_sequence' = [sqlite_sequence EXCEPT !["workouts"] = id]
                     /\ issued' = [issued EXCEPT !["workouts"] = @ \cup {id}]
                     /\ resp' = Response("add_workout", 201, id, NoBody)
                     /\ Leave(FALSE)

\* Faulty variant: DELETE FROM workouts WHERE id <= ?
delete_workout_UpTo(workout_id) ==
    /\ workouts' = {w \in workouts : w.id > workout_id}
    /\ req' = [op |-> "delete_workout", id |-> workout_id]
    /\ resp' = Response("delete_workout", 200, 0, NoBody)
    /\ Leave(FALSE)
    /\ UNCHANGED <<goals, meals, calorie_goals, sqlite_sequence, issued, clock, proc, writer>>

\* DELETE FROM workouts WHERE id = ?
delete_workout(workout_id) ==
    /\ workouts' = {w \in workouts : w.id # workout_id}
    /\ req' = [op |-> "delete_workout", id |-> workout_id]
    /\ resp' = Response("delete_workout", 200, 0, NoBody)
    /\ Leave(FALSE)
    /\ UNCHANGED <<goals, meals, calorie_goals, sqlite_sequence, issued, clock, proc, writer>>

(***************************************************************************)
(* Aggregates                                                              *)
(***************************************************************************)
R(k) == [t |-> "real", n |-> k, s |-> ""]     \* a floating-point result with value k

\* The number SUM adds for a value: an integer as it is; a text that is no number
\* counts as 0 (integer-literal texts never reach an INTEGER column, see
\* IntegerAffinity).
Numeric(v) == IF v.t \in {"int", "real"} THEN v.n ELSE 0

RECURSIVE SumNumeric(_, _)
SumNumeric(rows, f) ==
    IF rows = {} THEN 0
    ELSE LET r == CHOOSE x \in rows : TRUE
         IN  Numeric(r[f]) + SumNumeric(rows \ {r}, f)

\* SELECT SUM(f): NULL when no row has a non-NULL f; an integer when every
\* non-NULL f is an integer; a floating-point number otherwise.
SqlSum(rows, f) ==
    LET nn == {r \in rows : r[f] # Null}
    IN  IF nn = {} THEN Null
        ELSE IF \A r \in nn : IsInt(r[f]) THEN I(SumNumeric(nn, f))
        ELSE R(SumNumeric(nn, f))

\* Python `v or 0`
OrZero(v) == IF v.t = "real" THEN (IF v.n # 0 THEN v ELSE I(0))
             ELSE IF Truthy(v) THEN v ELSE I(0)

\* Python a - b on numbers
Minus(a, b) == IF a.t = "real" \/ b.t = "real" THEN R(a.n - b.n) ELSE I(a.n - b.n)

(***************************************************************************)
(* Meals                                                                   *)
(***************************************************************************)
MEALS_LIMIT == 50

\* ORDER BY created_at DESC
NewestFirst(a, b) == a.created_at > b.created_at
\* ORDER BY created_at ASC
OldestFirst(a, b) == a.created_at < b.created_at
\* ORDER BY date DESC, created_at DESC
MealBefore(a, b) ==
    \/ ValueLess(b.date, a.date)
    \/ (a.date = b.date /\ a.created_at > b.created_at)

NewestFirstPairs(rows) == {pr \in rows \X rows : NewestFirst(pr[1], pr[2])}
OldestFirstPairs(rows) == {pr \in rows \X rows : OldestFirst(pr[1], pr[2])}
MealBeforePairs(rows)  == {pr \in rows \X rows : MealBefore(pr[1], pr[2])}

\* WHERE date = ?   (the parameter is a text)
MealsOn(date) == {m \in meals : m.date = T(date)}

\* Faulty variant: the date-scoped listing ordered oldest first.
DatedMealListings_Ascending(date) == Ordered(MealsOn(date), OldestFirstPairs(MealsOn(date)))

\* SELECT * FROM meals WHERE date = ? ORDER BY created_at DESC
DatedMealListings(date) == Ordered(MealsOn(date), NewestFirstPairs(MealsOn(date)))

\* SELECT * FROM meals ORDER BY date DESC, created_at DESC LIMIT 50
RecentMealListings == {Limit(q, MEALS_LIMIT) : q \in Ordered(meals, MealBeforePairs(meals))}

\* date: the query parameter, Absent when the request has none.
get_meals(date) ==
    /\ \E body \in (IF Truthy(date) THEN DatedMealListings(date.s) ELSE RecentMealListings) :
          resp' = Response("get_meals", 200, 0, body)
    /\ req' = [op |-> "get_meals", date |-> date]
    /\ Leave(FALSE)
    /\ UNCHANGED <<tables, issued, clock, proc, writer>>

MealKeyError(data) ==
    \/ data.kind # "dict"
    \/ Absent \in {data.date, data.meal_type, data.food_name, data.calories}

MealParams(data) ==
    [date |-> data.date, meal_type |-> data.meal_type, food_name |-> data.food_name,
     calories |-> data.calories, protein |-> Get(data.protein, I(0)),
     carbs |-> Get(data.carbs, I(0)), fats |-> Get(data.fats, I(0)),
     notes |-> Get(data.notes, T(""))]

MealInsertFails(p) ==
    \/ \E f \in DOMAIN p : ~Bindable(p[f])
    \/ Null \in {p.date, p.meal_type, p.food_name, p.calories}

MealRow(id, p, now) ==
    [id |-> id, date |-> TextAffinity(p.date), meal_type |-> TextAffinity(p.meal_type),
     food_name |-> TextAffinity(p.food_name), calories |-> IntegerAffinity(p.calories),
     protein |-> IntegerAffinity(p.protein), carbs |-> IntegerAffinity(p.carbs),
     fats |-> IntegerAffinity(p.fats), notes |-> TextAffinity(p.notes), created_at |-> now]

add_meal(data, now) ==
    /\ req' = [op |-> "add_meal", data |-> data]
    /\ clock' = now
    /\ UNCHANGED <<workouts, goals, calorie_goals, proc, writer>>
    /\ IF MealKeyError(data)
       THEN /\ resp' = Response("add_meal", 400, 0, NoBody)
            /\ Leave(FALSE)
            /\ UNCHANGED <<meals, sqlite_sequence, issued>>
       ELSE LET p  == MealParams(data)
                id == NextRowId("meals", meals)
            IN  IF MealInsertFails(p)
                THEN /\ resp' = Response("add_meal", 500, 0, NoBody)
                     /\ Leave(TRUE)
                     /\ UNCHANGED <<meals, sqlite_sequence, issued>>
                ELSE /\ id <= MaxId
                     /\ meals' = meals \cup {MealRow(id, p, now)}
                     /\ sqlite_sequence' = [sqlite_sequence EXCEPT !["meals"] = id]
                     /\ issued' = [issued EXCEPT !["meals"] = @ \cup {id}]
                     /\ resp' = Response("add_meal", 201, id, NoBody)
                     /\ Leave(FALSE)

delete_meal(meal_id) ==
    /\ meals' = {m \in meals : m.id # meal_id}
    /\ req' = [op |-> "delete_meal", id |-> meal_id]
    /\ resp' = Response("delete_meal", 200, 0, NoBody)
    /\ Leave(FALSE)
    /\ UNCHANGED <<workouts, goals, calorie_goals, sqlite_sequence, issued, clock, proc, writer>>

\* Faulty variant: totals taken over every meal, the WHERE clause of the SUM query lost.
DailyTotals_AllDates(date) ==
    [calories |-> OrZero(SqlSum(meals, "calories")),
     protein  |-> OrZero(SqlSum(meals, "protein")),
     carbs    |-> OrZero(SqlSum(meals, "carbs")),
     fats     |-> OrZero(SqlSum(meals, "fats"))]

\* SELECT SUM(calories), SUM(protein), SUM(carbs), SUM(fats) FROM meals WHERE date = ?
\* and the `or 0` of each
DailyTotals(date) ==
    [calories |-> OrZero(SqlSum(MealsOn(date), "calories")),
     protein  |-> OrZero(SqlSum(MealsOn(date), "protein")),
     carbs    |-> OrZero(SqlSum(MealsOn(date), "carbs")),
     fats     |-> OrZero(SqlSum(MealsOn(date), "fats"))]

\* date: the path segment, a non-empty text.
get_daily_meals(date) ==
    /\ \E q \in Ordered(MealsOn(date), OldestFirstPairs(MealsOn(date))) :
          resp' = Response("get_daily_meals", 200, 0,
                           [meals |-> q, totals |-> DailyTotals(date)])
    /\ req' = [op |-> "get_daily_meals", date |-> T(date)]
    /\ Leave(FALSE)
    /\ UNCHANGED <<tables, issued, clock, proc, writer>>

(***************************************************************************)
(* Calorie goals                                                           *)
(***************************************************************************)
\* fetchone() of SELECT * FROM calorie_goals WHERE date = ?: the rows it can return,
\* or None when there is none.
get_calorie_goal(date) ==
    /\ LET found == {g \in calorie_goals : g.date = T(date)}
       IN  IF found = {}
           THEN resp' = Response("get_calorie_goal", 200, 0, Null)
           ELSE \E g \in found : resp' = Response("get_calorie_goal", 200, 0, g)
    /\ req' = [op |-> "get_calorie_goal", date |-> T(date)]
    /\ Leave(FALSE)
    /\ UNCHANGED <<tables, issued, clock, proc, writer>>

CalorieGoalKeyError(data) ==
    \/ data.kind # "dict"
    \/ Absent \in {data.date, data.daily_goal}

CalorieGoalInsertFails(p) ==
    \/ \E f \in DOMAIN p : ~Bindable(p[f])
    \/ Null \in {p.date, p.daily_goal}

CalorieGoalRow(id, p, now) ==
    [id |-> id, date |-> TextAffinity(p.date), daily_goal |-> IntegerAffinity(p.daily_goal),
     created_at |-> now]

\* Faulty variant: the date column without UNIQUE, so that OR REPLACE finds no conflict.
InsertOrReplace_NoUnique(rows, row) == rows \cup {row}

\* Faulty variant: INSERT OR IGNORE, which keeps the row already stored for the date.
InsertOrReplace_Ignore(rows, row) ==
    IF \E g \in rows : g.date = row.date THEN rows ELSE rows \cup {row}

\* INSERT OR REPLACE with date UNIQUE: the rows that conflict on date are deleted,
\* then the new row is inserted.
InsertOrReplace(rows, row) == {g \in rows : g.date # row.date} \cup {row}

set_calorie_goal(data, now) ==
    /\ req' = [op |-> "set_calorie_goal", data |-> data]
    /\ clock' = now
    /\ UNCHANGED <<workouts, goals, meals, proc, writer>>
    /\ IF CalorieGoalKeyError(data)
       THEN /\ resp' = Response("set_calorie_goal", 400, 0, NoBody)
            /\ Leave(FALSE)
            /\ UNCHANGED <<calorie_goals, sqlite_sequence, issued>>
       ELSE LET p  == [date |-> data.date, daily_goal |-> data.daily_goal]
                id == NextRowId("calorie_goals", calorie_goals)
            IN  IF CalorieGoalInsertFails(p)
                THEN /\ resp' = Response("set_calorie_goal", 500, 0, NoBody)
                     /\ Leave(TRUE)
                     /\ UNCHANGED <<calorie_goals, sqlite_sequence, issued>>
                ELSE /\ id <= MaxId
                     /\ calorie_goals' = InsertOrReplace(calorie_goals, CalorieGoalRow(id, p, now))
                     /\ sqlite_sequence' = [sqlite_sequence EXCEPT !["calorie_goals"] = id]
                     /\ issued' = [issued EXCEPT !["calorie_goals"] = @ \cup {id}]
                     /\ resp' = Response("set_calorie_goal", 201, 0, NoBody)
                     /\ Leave(FALSE)

(***************************************************************************)
(* Stats                                                                   *)
(***************************************************************************)
\* Faulty variant: net_calories with the operands exchanged.
NetCalories_Swapped(consumed, burned) == Minus(burned, consumed)

NetCalories(consumed, burned) == Minus(consumed, burned)

get_stats ==
    /\ LET total_workouts          == Cardinality(workouts)
           total_calories_burned   == OrZero(SqlSum(workouts, "calories"))
           total_duration          == OrZero(SqlSum(workouts, "duration"))
           total_calories_consumed == OrZero(SqlSum(meals, "calories"))
       IN  resp' = Response("get_stats", 200, 0,
                     [total_workouts          |-> I(total_workouts),
                      total_calories_burned   |-> total_calories_burned,
                      total_duration          |-> total_duration,
                      total_calories_consumed |-> total_calories_consumed,
                      net_calories            |-> NetCalories(total_calories_consumed,
                                                              total_calories_burned)])
    /\ req' = [op |-> "get_stats"]
    /\ Leave(FALSE)
    /\ UNCHANGED <<tables, issued, clock, proc, writer>>

(***************************************************************************)
(* Goals                                                                   *)
(***************************************************************************)
\* SELECT * FROM goals ORDER BY created_at DESC
get_goals ==
    /\ \E body \in Ordered(goals, NewestFirstPairs(goals)) :
          resp' = Response("get_goals", 200, 0, body)
    /\ req' = [op |-> "get_goals"]
    /\ Leave(FALSE)
    /\ UNCHANGED <<tables, issued, clock, proc, writer>>

GoalKeyError(data) ==
    \/ data.kind # "dict"
    \/ Absent \in {data.goal_type, data.target_value}

GoalParams(data) ==
    [goal_type |-> data.goal_type, target_value |-> data.target_value,
     deadline |-> Get(data.deadline, Null)]

GoalInsertFails(p) ==
    \/ \E f \in DOMAIN p : ~Bindable(p[f])
    \/ Null \in {p.goal_type, p.target_value}

GoalRow(id, p, now) ==
    [id |-> id, goal_type |-> TextAffinity(p.goal_type),
     target_value |-> IntegerAffinity(p.target_value),
     deadline |-> TextAffinity(p.deadline), created_at |-> now]

add_goal(data, now) ==
    /\ req' = [op |-> "add_goal", data |-> data]
    /\ clock' = now
    /\ UNCHANGED <<workouts, meals, calorie_goals, proc, writer>>
    /\ IF GoalKeyError(data)
       THEN /\ resp' = Response("add_goal", 400, 0, NoBody)
            /\ Leave(FALSE)
            /\ UNCHANGED <<goals, sqlite_sequence, issued>>
       ELSE LET p  == GoalParams(data)
                id == NextRowId("goals", goals)
            IN  IF GoalInsertFails(p)
                THEN /\ resp' = Response("add_goal", 500, 0, NoBody)
                     /\ Leave(TRUE)
                     /\ UNCHANGED <<goals, sqlite_sequence, issued>>
                ELSE /\ id <= MaxId
                     /\ goals' = goals \cup {GoalRow(id, p, now)}
                     /\ sqlite_sequence' = [sqlite_sequence EXCEPT !["goals"] = id]
                     /\ issued' = [issued EXCEPT !["goals"] = @ \cup {id}]
                     /\ resp' = Response("add_goal", 201, id, NoBody)
                     /\ Leave(FALSE)

delete_goal(goal_id) ==
    /\ goals' = {g \in goals : g.id # goal_id}
    /\ req' = [op |-> "delete_goal", id |-> goal_id]
    /\ resp' = Response("delete_goal", 200, 0, NoBody)
    /\ Leave(FALSE)
    /\ UNCHANGED <<workouts, meals, calorie_goals, sqlite_sequence, issued, clock, proc, writer>>

(***************************************************************************)
(* Initial state: the schema exists (init_db) and the tables are empty.    *)
(***************************************************************************)
TableNames == {"workouts", "goals", "meals", "calorie_goals"}

Threads == 1..MaxThreads

\* A request thread between requests.
Idle == [pc |-> "idle", op |-> "none", arg |-> Null, rows |-> <<>>, pending |-> <<>>,
         resp |-> Response("none", 0, 0, NoBody)]

Init ==
    /\ workouts = {}
    /\ goals = {}
    /\ meals = {}
    /\ calorie_goals = {}
    /\ sqlite_sequence = [name \in TableNames |-> 0]
    /\ issued = [name \in TableNames |-> {}]
    /\ clock = 0
    /\ unclosed = FALSE
    /\ req = [op |-> "none"]
    /\ resp = Response("none", 0, 0, NoBody)
    /\ proc = [p \in Threads |-> Idle]
    /\ writer = 0

Now == {t \in {clock, clock + 1} : t <= MaxClock}

(***************************************************************************)
(* Workout store, sequential requests.                                     *)
(***************************************************************************)
WorkoutData(date, type, duration, calories, notes) ==
    [kind |-> "dict", date |-> date, type |-> type, duration |-> duration,
     calories |-> calories, notes |-> notes]

WorkoutPayloads ==
    { WorkoutData(T("2024-01-01"), T("run"),  I(1), I(2), Absent),
      WorkoutData(T("2024-01-02"), T("walk"), I(2), I(1), T("easy")),
      WorkoutData(T("2024-01-01"), I(1),      T("2"), T("a"), Null),
      WorkoutData(T("2024-01-01"), T("run"),  Absent, I(2), Absent) }

W_get_workouts   == get_workouts
W_add_workout    == \E data \in WorkoutPayloads, now \in Now :
                        add_workout(data, now)
W_delete_workout == \E id \in 1..(MaxId + 1) : delete_workout(id)

NextWorkout == W_get_workouts \/ W_add_workout \/ W_delete_workout
SpecWorkout == Init /\ [][NextWorkout]_vars

\* What list() can return: the bodies get_workouts can produce in this state.
WorkoutListings == Ordered(workouts, WorkoutBeforePairs(workouts))
Entries(q) == {q[i] : i \in 1..Len(q)}

\* The payload has the shape the data model gives a Workout.
WorkoutWellShaped(data) ==
    /\ data.kind = "dict"
    /\ IsText(data.date) /\ IsText(data.type)
    /\ IsInt(data.duration) /\ IsInt(data.calories)
    /\ (data.notes = Absent \/ IsText(data.notes))

\* C8: after a successful create, every listing has exactly one more entry than
\* every listing before; the new entry has the returned id, which no workout
\* listed before has and no earlier create ever returned; the entries listed
\* before are all still listed, unchanged; and for a payload of the data model's
\* shape the new entry carries the submitted date, type, duration and calories,
\* and notes, or the empty string when notes was omitted.
C8_CreateListRoundTrip ==
    [][ (W_add_workout /\ resp'.status = 201) =>
        \A before \in WorkoutListings : \A after \in WorkoutListings' :
            LET d   == req'.data
                new == Entries(after) \ Entries(before)
            IN  /\ Len(after) = Len(before) + 1
                /\ Entries(before) \subseteq Entries(after)
                /\ Cardinality(new) = 1
                /\ \A e \in new :
                      /\ e.id = resp'.id
                      /\ e.id \notin issued["workouts"]
                      /\ \A w \in Entries(before) : w.id # e.id
                      /\ WorkoutWellShaped(d) =>
                            /\ e.date = d.date /\ e.type = d.type
                            /\ e.duration = d.duration /\ e.calories = d.calories
                            /\ e.notes = (IF d.notes = Absent THEN T("") ELSE d.notes)
      ]_vars

\* A create succeeded with notes omitted, after an earlier workout was deleted and
\* while another is still stored.
C8_Witness ==
    /\ req.op = "add_workout" /\ resp.status = 201
    /\ WorkoutWellShaped(req.data) /\ req.data.notes = Absent
    /\ Cardinality(workouts) = 2
    /\ \E id \in issued["workouts"] : \A w \in workouts : w.id # id

(***************************************************************************)
(* Meal store, sequential requests.                                        *)
(***************************************************************************)
MealData(date, meal_type, food_name, calories, protein, carbs, fats, notes) ==
    [kind |-> "dict", date |-> date, meal_type |-> meal_type, food_name |-> food_name,
     calories |-> calories, protein |-> protein, carbs |-> carbs, fats |-> fats,
     notes |-> notes]

MealPayloads ==
    { MealData(T("2024-01-01"), T("lunch"), T("rice"), I(2),   I(1), Absent, Absent, Absent),
      MealData(T("2024-01-02"), T("snack"), T("nuts"), T("a"), Null, I(2),   T("2"), T("hot")),
      MealData(T("2024-01-02"), T("snack"), T("nuts"), Absent, I(3), Absent, Absent, Absent) }

QueryDates == {"2024-01-01", "2024-01-02"}

M_get_meals       == \E date \in {Absent, T(""), T("2024-01-01")} : get_meals(date)
M_add_meal        == \E data \in MealPayloads, now \in Now : add_meal(data, now)
M_delete_meal     == \E id \in 1..(MaxId + 1) : delete_meal(id)
M_get_daily_meals == \E date \in QueryDates : get_daily_meals(date)

NextMeal == M_get_meals \/ M_add_meal \/ M_delete_meal \/ M_get_daily_meals
SpecMeal == Init /\ [][NextMeal]_vars

\* The value a field contributes to a sum of that field: the integer it holds,
\* nothing when it holds no integer.
FieldValue(v) == IF IsInt(v) THEN v.n ELSE 0

RECURSIVE SumOver(_, _)
SumOver(q, f) == IF q = <<>> THEN 0 ELSE FieldValue(Head(q)[f]) + SumOver(Tail(q), f)

NoDuplicates(q) == \A i, j \in 1..Len(q) : i # j => q[i] # q[j]

MacroFields == {"calories", "protein", "carbs", "fats"}

\* C5: daily_summary(d) returns exactly the stored meals whose date is d, each
\* once, and each of totals.calories, protein, carbs and fats is a number equal to
\* the sum of that field over the returned meals; with no meal on d the list is
\* empty and the four totals are the integer 0.
C5_DailySummaryTotals ==
    resp.op = "get_daily_meals" =>
        LET listed == resp.body.meals
            totals == resp.body.totals
        IN  /\ Entries(listed) = {m \in meals : m.date = req.date}
            /\ NoDuplicates(listed)
            /\ \A f \in MacroFields :
                  /\ totals[f].t \in {"int", "real"}
                  /\ totals[f].n = SumOver(listed, f)
            /\ listed = <<>> => \A f \in MacroFields : totals[f] = I(0)

\* A summary of a date with two meals while another date has a meal too.
C5_Witness ==
    /\ resp.op = "get_daily_meals"
    /\ Len(resp.body.meals) = 2
    /\ \E m \in meals : m.date # req.date
    /\ resp.body.totals.calories = I(4)

CalorieGoalData(date, daily_goal) == [kind |-> "dict", date |-> date, daily_goal |-> daily_goal]

CalorieGoalPayloads ==
    { CalorieGoalData(T("2024-01-01"), I(2)),
      CalorieGoalData(T("2024-01-01"), I(3)),
      CalorieGoalData(T("2024-01-02"), I(2)),
      CalorieGoalData(T("2024-01-02"), T("3")),
      CalorieGoalData(T("2024-01-02"), Absent) }

G_get_calorie_goal == \E date \in QueryDates : get_calorie_goal(date)
G_set_calorie_goal == \E data \in CalorieGoalPayloads, now \in Now : set_calorie_goal(data, now)

NextCalorieGoal == G_get_calorie_goal \/ G_set_calorie_goal
SpecCalorieGoal == Init /\ [][NextCalorieGoal]_vars

CalorieGoalWellShaped(data) ==
    data.kind = "dict" /\ IsText(data.date) /\ IsInt(data.daily_goal)

\* C2: after a successful set(d, g), with d a text and g an integer, the table
\* holds exactly one row for d and its daily_goal is g, whatever was stored for d
\* before; get(d) succeeds and returns the one row stored for d, or null when no
\* row is stored for d (rows are stored by set alone, so: when no set(d, _) has
\* succeeded).
C2_SetThenGet ==
    /\ (resp.op = "set_calorie_goal" /\ resp.status = 201 /\ CalorieGoalWellShaped(req.data)) =>
          LET rows == {g \in calorie_goals : g.date = req.data.date}
          IN  /\ Cardinality(rows) = 1
              /\ \A g \in rows : g.daily_goal = req.data.daily_goal
    /\ resp.op = "get_calorie_goal" =>
          LET rows == {g \in calorie_goals : g.date = req.date}
          IN  /\ resp.status = 200
              /\ Cardinality(rows) <= 1
              /\ rows = {} => resp.body = Null
              /\ \A g \in rows : resp.body = g
    /\ \A g \in calorie_goals : g.id \in issued["calorie_goals"]

\* A second successful set for a date whose row the first set had stored: two ids
\* were handed out and one row is stored.
C2_Witness ==
    /\ resp.op = "set_calorie_goal" /\ resp.status = 201
    /\ req.data = CalorieGoalData(T("2024-01-01"), I(3))
    /\ sqlite_sequence["calorie_goals"] = 2
    /\ \E g \in calorie_goals : g.id = 2 /\ g.daily_goal = I(3)
    /\ Cardinality(calorie_goals) = 1

(***************************************************************************)
(* All stores together, sequential requests, payloads of every shape.      *)
(***************************************************************************)
NotADict == [kind |-> "other"]     \* a JSON body that is no object: null, a number, a list

GoalData(goal_type, target_value, deadline) ==
    [kind |-> "dict", goal_type |-> goal_type, target_value |-> target_value,
     deadline |-> deadline]

AnyWorkoutPayloads ==
    { WorkoutData(T("2024-01-01"), T("run"), I(1),   I(2),   Absent),
      WorkoutData(T("2024-01-01"), T("run"), I(1),   T("a"), Absent),    \* calories no integer
      WorkoutData(T("2024-01-01"), T("run"), Absent, I(2),   Absent),    \* duration missing
      WorkoutData(Null,            T("run"), I(1),   I(2),   Absent) }   \* date null

AnyMealPayloads ==
    { MealData(T("2024-01-01"), T("lunch"), T("rice"), I(1),  I(1), Absent, Absent, Absent),
      MealData(T("2024-01-01"), Absent,     T("rice"), I(1),  I(1), Absent, Absent, Absent),
      MealData(T("2024-01-01"), T("lunch"), T("rice"), Array, I(1), Absent, Absent, Absent),
      NotADict }

AnyGoalPayloads ==
    { GoalData(T("weight"), I(2),   Absent),
      GoalData(T("weight"), Array,  T("2024-01-02")),                    \* target a list
      GoalData(T("weight"), Null,   Absent),                             \* target null
      GoalData(Absent,      I(2),   Absent) }                            \* goal_type missing

AnyCalorieGoalPayloads ==
    { CalorieGoalData(T("2024-01-01"), I(2)),
      CalorieGoalData(I(1),            T("a")),                          \* both of the wrong type
      CalorieGoalData(Array,           I(2)),
      CalorieGoalData(T("2024-01-01"), Absent) }

RowsInserted ==
    sqlite_sequence["workouts"] + sqlite_sequence["meals"]
  + sqlite_sequence["goals"] + sqlite_sequence["calorie_goals"]

Ids == 1..MaxRows

GetWorkouts    == get_workouts
AddWorkout     == /\ RowsInserted < MaxRows
                  /\ \E data \in AnyWorkoutPayloads, now \in Now : add_workout(data, now)
DeleteWorkout  == \E id \in Ids : delete_workout(id)
GetMeals       == \E date \in {Absent, T("2024-01-01")} : get_meals(date)
AddMeal        == /\ RowsInserted < MaxRows
                  /\ \E data \in AnyMealPayloads, now \in Now : add_meal(data, now)
DeleteMeal     == \E id \in Ids : delete_meal(id)
GetDailyMeals  == get_daily_meals("2024-01-01")
GetCalorieGoal == get_calorie_goal("2024-01-01")
SetCalorieGoal == /\ RowsInserted < MaxRows
                  /\ \E data \in AnyCalorieGoalPayloads, now \in Now : set_calorie_goal(data, now)
GetStats       == get_stats
GetGoals       == get_goals
AddGoal        == /\ RowsInserted < MaxRows
                  /\ \E data \in AnyGoalPayloads, now \in Now : add_goal(data, now)
DeleteGoal     == \E id \in Ids : delete_goal(id)

Next ==
    \/ GetWorkouts \/ AddWorkout \/ DeleteWorkout
    \/ GetMeals \/ AddMeal \/ DeleteMeal \/ GetDailyMeals
    \/ GetCalorieGoal \/ SetCalorieGoal
    \/ GetStats
    \/ GetGoals \/ AddGoal \/ DeleteGoal
    \/ Finalize

Spec == Init /\ [][Next]_vars

MealWellShaped(data) ==
    /\ data.kind = "dict"
    /\ IsText(data.date) /\ IsText(data.meal_type) /\ IsText(data.food_name)
    /\ IsInt(data.calories)
    /\ \A v \in {data.protein, data.carbs, data.fats} : v = Absent \/ IsInt(v)
    /\ (data.notes = Absent \/ IsText(data.notes))

GoalWellShaped(data) ==
    /\ data.kind = "dict"
    /\ IsText(data.goal_type) /\ IsInt(data.target_value)
    /\ (data.deadline = Absent \/ IsText(data.deadline))

WellShaped(r) ==
    CASE r.op = "add_workout"      -> WorkoutWellShaped(r.data)
      [] r.op = "add_meal"         -> MealWellShaped(r.data)
      [] r.op = "add_goal"         -> GoalWellShaped(r.data)
      [] r.op = "set_calorie_goal" -> CalorieGoalWellShaped(r.data)
      [] OTHER                     -> TRUE

DeleteOps == {"delete_workout", "delete_meal", "delete_goal"}

\* The rows of the table a delete request is for.
Target(op, w, m, g) ==
    CASE op = "delete_workout" -> w
      [] op = "delete_meal"    -> m
      [] op = "delete_goal"    -> g

\* C3: a delete(id) of a Workout, Meal or Goal reports success; afterwards no row
\* of that table has the id, every other row is as before, and the other tables
\* are as before; when no row had the id, the table is unchanged, so a second
\* delete(id) changes nothing.  (A step that handles a delete request leaves the
\* connection flag as it is; the finaliser's step changes it.)
C3_IdempotentDelete ==
    [][ (req'.op \in DeleteOps /\ unclosed' = unclosed) =>
        LET id     == req'.id
            before == Target(req'.op, workouts, meals, goals)
            after  == Target(req'.op, workouts', meals', goals')
        IN  /\ resp'.status = 200
            /\ after = {r \in before : r.id # id}
            /\ (\A r \in before : r.id # id) => after = before
            /\ req'.op # "delete_workout" => workouts' = workouts
            /\ req'.op # "delete_meal" => meals' = meals
            /\ req'.op # "delete_goal" => goals' = goals
            /\ calorie_goals' = calorie_goals
      ]_vars

\* A delete of an id no create of that table ever returned, with a row stored.
C3_Witness ==
    /\ req.op = "delete_workout" /\ resp.status = 200
    /\ req.id \notin issued["workouts"]
    /\ workouts # {}

\* C4 as stated: a create or set whose payload lacks a required field or has a
\* field of the wrong shape is answered 400.
C4_ValidationRejects ==
    (req.op \in {"add_workout", "add_meal", "add_goal", "set_calorie_goal"} /\ ~WellShaped(req))
        => resp.status = 400

RECURSIVE SumField(_, _)
SumField(rows, f) ==
    IF rows = {} THEN 0
    ELSE LET r == CHOOSE x \in rows : TRUE
         IN  FieldValue(r[f]) + SumField(rows \ {r}, f)

IsNumber(v) == v.t \in {"int", "real"}

\* C7: summary() returns total_workouts = the number of workout rows,
\* total_calories_burned and total_duration = the sums of Workout.calories and
\* Workout.duration, total_calories_consumed = the sum of Meal.calories, each a
\* number (0 over no rows), and net_calories = consumed - burned; on an empty
\* store all five are the integer 0.
C7_StatsSummary ==
    resp.op = "get_stats" =>
        LET b == resp.body
        IN  /\ b.total_workouts = I(Cardinality(workouts))
            /\ IsNumber(b.total_calories_burned)
            /\ b.total_calories_burned.n = SumField(workouts, "calories")
            /\ IsNumber(b.total_duration)
            /\ b.total_duration.n = SumField(workouts, "duration")
            /\ IsNumber(b.total_calories_consumed)
            /\ b.total_calories_consumed.n = SumField(meals, "calories")
            /\ IsNumber(b.net_calories)
            /\ b.net_calories.n = SumField(meals, "calories") - SumField(workouts, "calories")
            /\ (workouts = {} /\ meals = {}) =>
                  \A k \in DOMAIN b : b[k] = I(0)

\* A summary with a workout and a meal stored and more burned than consumed.
C7_Witness ==
    /\ resp.op = "get_stats"
    /\ workouts # {} /\ meals # {}
    /\ resp.body.net_calories = I(-1)

\* C10 as stated: no connection opened by a handler that has returned is open.
C10_ConnectionsReleased == ~unclosed

(***************************************************************************)
(* Concurrent requests.  The server runs each request on its own thread    *)
(* with its own connection; a handler is a sequence of statements, and     *)
(* other threads' statements run between them.  A SELECT runs in           *)
(* autocommit and sees the committed tables.  An INSERT or DELETE opens a  *)
(* transaction that holds the database write lock until conn.commit();     *)
(* its changes are private to the connection until then.                   *)
(***************************************************************************)
\* The handler is entered: request.json / the path argument is read, get_db() opens
\* the connection.
Begin(p, op, arg) ==
    /\ proc[p].pc = "idle"
    /\ proc' = [proc EXCEPT ![p] = [Idle EXCEPT !.pc = IF op = "get_daily_meals"
                                                       THEN "select_meals" ELSE "execute",
                                              !.op = op, !.arg = arg]]
    /\ UNCHANGED <<tables, issued, clock, unclosed, req, resp, writer>>

\* The tables as the writing connection p will commit them.
Pending(p, now) ==
    LET r == proc[p]
        unchanged == [meals |-> meals, calorie_goals |-> calorie_goals,
                      sqlite_sequence |-> sqlite_sequence, issued |-> issued, id |-> 0]
    IN  CASE r.op = "set_calorie_goal" ->
               LET id == NextRowId("calorie_goals", calorie_goals)
               IN  [unchanged EXCEPT
                      !.calorie_goals = InsertOrReplace(calorie_goals,
                                            CalorieGoalRow(id, [date |-> r.arg.date,
                                                daily_goal |-> r.arg.daily_goal], now)),
                      !.sqlite_sequence = [sqlite_sequence EXCEPT !["calorie_goals"] = id],
                      !.issued = [issued EXCEPT !["calorie_goals"] = @ \cup {id}],
                      !.id = id]
          [] r.op = "add_meal" ->
               LET id == NextRowId("meals", meals)
               IN  [unchanged EXCEPT
                      !.meals = meals \cup {MealRow(id, MealParams(r.arg), now)},
                      !.sqlite_sequence = [sqlite_sequence EXCEPT !["meals"] = id],
                      !.issued = [issued EXCEPT !["meals"] = @ \cup {id}],
                      !.id = id]
          [] r.op = "delete_meal" ->
               [unchanged EXCEPT !.meals = {m \in meals : m.id # r.arg}]

\* conn.execute of the INSERT or DELETE: the connection takes the write lock.
Execute(p, now) ==
    /\ proc[p].pc = "execute"
    /\ writer = 0
    /\ Pending(p, now).id <= MaxId
    /\ writer' = p
    /\ clock' = now
    /\ proc' = [proc EXCEPT ![p].pc = "commit", ![p].pending = Pending(p, now)]
    /\ UNCHANGED <<tables, issued, unclosed, req, resp>>

\* conn.execute while another connection holds the write lock, past the busy
\* timeout: sqlite3.OperationalError (database is locked) leaves the handler.
DatabaseLocked(p) ==
    /\ proc[p].pc = "execute"
    /\ writer \notin {0, p}
    /\ proc' = [proc EXCEPT ![p].pc = "done",
                            ![p].resp = Response(proc[p].op, 500, 0, NoBody)]
    /\ Leave(TRUE)
    /\ UNCHANGED <<tables, issued, clock, req, resp, writer>>

\* conn.commit() and the return of the handler's response
Commit(p) ==
    /\ proc[p].pc = "commit"
    /\ writer = p
    /\ LET img == proc[p].pending
       IN  /\ meals' = img.meals
           /\ calorie_goals' = img.calorie_goals
           /\ sqlite_sequence' = img.sqlite_sequence
           /\ issued' = img.issued
           /\ proc' = [proc EXCEPT ![p].pc = "done", ![p].pending = <<>>,
                          ![p].resp = Response(proc[p].op,
                                               IF proc[p].op = "delete_meal" THEN 200 ELSE 201,
                                               IF proc[p].op = "add_meal" THEN img.id ELSE 0,
                                               NoBody)]
    /\ writer' = 0
    /\ UNCHANGED <<workouts, goals, clock, unclosed, req, resp>>

\* get_daily_meals, first statement: SELECT * FROM meals WHERE date = ? ORDER BY created_at ASC
SelectMeals(p) ==
    /\ proc[p].pc = "select_meals"
    /\ \E q \in Ordered(MealsOn(proc[p].arg), OldestFirstPairs(MealsOn(proc[p].arg))) :
          proc' = [proc EXCEPT ![p].pc = "select_totals", ![p].rows = q]
    /\ UNCHANGED <<tables, issued, clock, unclosed, req, resp, writer>>

\* get_daily_meals, second statement: SELECT SUM(...) FROM meals WHERE date = ?, and
\* the response built from both results
SelectTotals(p) ==
    /\ proc[p].pc = "select_totals"
    /\ proc' = [proc EXCEPT ![p].pc = "done",
                   ![p].resp = Response("get_daily_meals", 200, 0,
                                   [meals |-> proc[p].rows,
                                    totals |-> DailyTotals(proc[p].arg)])]
    /\ UNCHANGED <<tables, issued, clock, unclosed, req, resp, writer>>

\* The response has been sent; the thread takes the next request.
Return(p) ==
    /\ proc[p].pc = "done"
    /\ proc' = [proc EXCEPT ![p] = Idle]
    /\ UNCHANGED <<tables, issued, clock, unclosed, req, resp, writer>>

ConcCalorieGoalPayloads ==
    { CalorieGoalData(T("2024-01-01"), I(2)),
      CalorieGoalData(T("2024-01-01"), I(3)),
      CalorieGoalData(T("2024-01-02"), I(2)) }

ConcMealPayloads ==
    { MealData(T("2024-01-01"), T("lunch"), T("rice"), I(2), I(1), Absent, Absent, Absent) }

BeginSetCalorieGoal == \E p \in Threads, data \in ConcCalorieGoalPayloads :
                           Begin(p, "set_calorie_goal", data)
BeginAddMeal        == \E p \in Threads, data \in ConcMealPayloads : Begin(p, "add_meal", data)
BeginDeleteMeal     == \E p \in Threads : Begin(p, "delete_meal", 1)
BeginGetDailyMeals  == \E p \in Threads : Begin(p, "get_daily_meals", "2024-01-01")
ExecuteStep         == \E p \in Threads, now \in Now : Execute(p, now)
DatabaseLockedStep  == \E p \in Threads : DatabaseLocked(p)
CommitStep          == \E p \in Threads : Commit(p)
SelectMealsStep     == \E p \in Threads : SelectMeals(p)
SelectTotalsStep    == \E p \in Threads : SelectTotals(p)
ReturnStep          == \E p \in Threads : Return(p)

\* Concurrent set() calls of the calorie-goal store.
NextRace ==
    \/ BeginSetCalorieGoal
    \/ ExecuteStep \/ DatabaseLockedStep \/ CommitStep \/ ReturnStep
    \/ Finalize

SpecRace == Init /\ [][NextRace]_vars

\* Concurrent create, delete and daily_summary calls of the meal store.
NextConc ==
    \/ BeginAddMeal \/ BeginDeleteMeal \/ BeginGetDailyMeals
    \/ ExecuteStep \/ DatabaseLockedStep \/ CommitStep
    \/ SelectMealsStep \/ SelectTotalsStep \/ ReturnStep
    \/ Finalize

SpecConc == Init /\ [][NextConc]_vars

\* C1: in every state reached by any interleaving of concurrent set() calls, the
\* calorie_goals table holds at most one row per date, and so does the table as
\* each open transaction is about to commit it.
C1_OneGoalPerDate ==
    /\ \A g, h \in calorie_goals : g.date = h.date => g = h
    /\ \A p \in Threads :
          proc[p].pc = "commit" =>
              \A g, h \in proc[p].pending.calorie_goals : g.date = h.date => g = h

\* Two set() calls for one date race: one holds the write lock with its row not yet
\* committed, the other is at its INSERT, and a row for the date is stored.
C1_Witness ==
    \E p, q \in Threads :
        /\ p # q
        /\ proc[p].op = "set_calorie_goal" /\ proc[p].pc = "commit"
        /\ proc[q].op = "set_calorie_goal" /\ proc[q].pc = "execute"
        /\ proc[p].arg.date = proc[q].arg.date
        /\ \E g \in calorie_goals : g.date = proc[p].arg.date

\* C9 as stated: the totals of a daily_summary response are the field-wise sums
\* of the meals in the same response.
C9_SummaryConsistent ==
    \A p \in Threads :
        (proc[p].pc = "done" /\ proc[p].op = "get_daily_meals") =>
            \A f \in MacroFields :
                proc[p].resp.body.totals[f].n = SumOver(proc[p].resp.body.meals, f)
====
